---- MODULE Spec2Model ----
(***************************************************************************)
(* Model of pod-knight's episode processor: the FFMpegQueue admission gate *)
(* (src/src/ffmpeg.js), the Plan step, the task tree built by              *)
(* EpisodeProcessor.populateTasks and the discord status reporter          *)
(* (src/unnamed/part_004 = episode-processor.js followed by utils.js).     *)
(*                                                                         *)
(* Task states use the names of the specification: Pending (not started),  *)
(* Running (listr2's isPending()), Completed, Failed, Skipped.             *)
(* The scheduling of the task tree is done by the listr2 library, which is *)
(* not part of the sources; SeqReady, GroupState and the guards built on   *)
(* them follow section 4.5 of the specification.                           *)
(***************************************************************************)
EXTENDS Integers, Sequences, FiniteSets, TLC

\* ---------------------------------------------------------------- bounds
MaxParallel == 2        \* largest configured parallel.video / parallel.audio
SourceDuration == 2     \* ffprobe duration of the source, in seconds
MaxOutputs == 3         \* largest number of output files (parts x formats) of a run
MaxCallers == 4         \* callers of one queue in SpecQueue
MaxTicks == 2           \* interval ticks of one status reporter
MaxCuts == 2            \* cut arguments of a command line in SpecPlan
MaxPartSpecs == 2       \* entries of the preset's parts in SpecPlan
MaxLines == 4           \* stderr lines of one ffmpeg process in SpecFFmpeg
MaxExitCode == 2        \* largest exit code of an ffmpeg process in SpecFFmpeg
MaxHours == 1           \* hours of a duration in SpecCodec
SubMilli == 4           \* SpecCodec counts time in 1/SubMilli of a millisecond
MaxComponents == 4      \* ':'-separated components of a timestamp text in SpecCodec

VARIABLES
    argv,           \* resolved configuration read during the run
    ffmpegQueues,   \* this.ffmpegQueues: media type -> queue object
    heap,           \* the FFMpegQueue objects: {queue, parallel, ongoing}
    context,        \* listr context: ffprobe duration, parts, uploads
    state,          \* state of every leaf task created so far
    started,        \* dynamic groups whose task function has run
    procs,          \* encode steps whose ffmpeg process is running
    holding,        \* history: admitted wait() calls not yet followed by done()
    rollbacks,      \* invocations of the processing group's rollback
    notices,        \* notifications the run asked postWebHook to send
    webhookErrors,  \* this.webhookErrors
    run,            \* outcome of EpisodeProcessor.run()
    reported,       \* the webhook errors run() printed with console.error
    requests,       \* the HTTP requests postWebHook made for the run's notices
    callers,        \* SpecQueue: position of every caller of the queue
    arrived,        \* SpecQueue history: wait() calls, in call order
    admitted,       \* SpecQueue history: admissions, in order
    released,       \* SpecQueue history: number of done() calls
    status,         \* SpecStatus: one indentWithDiscordStatus reporter
    ffmpeg,         \* SpecFFmpeg: one call of runFFmpeg and its child process
    codec           \* SpecCodec: a duration or a timestamp text and its conversions

runVars == <<argv, ffmpegQueues, context, state, started, procs, holding,
             rollbacks, notices, webhookErrors, run, reported, requests>>
queueVars == <<callers, arrived, admitted, released, status, ffmpeg, codec>>
vars == <<argv, ffmpegQueues, heap, context, state, started, procs, holding,
          rollbacks, notices, webhookErrors, run, reported, requests, callers,
          arrived, admitted, released, status, ffmpeg, codec>>

\* ---------------------------------------------------------------- helpers
Range(s) == {s[i] : i \in 1..Len(s)}
Min(a, b) == IF a < b THEN a ELSE b
IndexOf(s, x) == CHOOSE i \in 1..Len(s) : s[i] = x
IsPrefix(s, t) == Len(s) <= Len(t) /\ \A i \in 1..Len(s) : s[i] = t[i]
L(g, p, f, s) == [g |-> g, p |-> p, f |-> f, s |-> s]
Done == {"Completed", "Skipped"}
Terminal == {"Completed", "Failed", "Skipped"}

\* ---------------------------------------------------------------- FFMpegQueue
FFMpegQueue(parallel) == [queue |-> <<>>, parallel |-> parallel, ongoing |-> 0]

\* check() with the capacity test off by one
check_overAdmit(q) ==
    IF q.ongoing <= q.parallel /\ Len(q.queue) > 0
    THEN [q |-> [q EXCEPT !.queue = Tail(@), !.ongoing = @ + 1],
          woke |-> <<Head(q.queue)>>]
    ELSE [q |-> q, woke |-> <<>>]

\* check() taking the newest waiter (pop) instead of the oldest (shift)
check_pop(q) ==
    IF q.ongoing < q.parallel /\ Len(q.queue) > 0
    THEN [q |-> [q EXCEPT !.queue = SubSeq(@, 1, Len(@) - 1), !.ongoing = @ + 1],
          woke |-> <<q.queue[Len(q.queue)]>>]
    ELSE [q |-> q, woke |-> <<>>]

\* check(): admit the head of the queue when a slot is free.  The result
\* carries the queue object and the wait() promises resolved by the call.
check(q) ==
    IF q.ongoing < q.parallel /\ Len(q.queue) > 0
    THEN [q |-> [q EXCEPT !.queue = Tail(@), !.ongoing = @ + 1],
          woke |-> <<Head(q.queue)>>]
    ELSE [q |-> q, woke |-> <<>>]

\* wait() that only queues the caller
wait_noCheck(q, resolve) ==
    [q |-> [q EXCEPT !.queue = Append(@, resolve)], woke |-> <<>>]

wait(q, resolve) == check([q EXCEPT !.queue = Append(@, resolve)])

\* done() that forgets to give the slot back
done_noDecrement(q) == check(q)

\* done() that gives the slot back without looking at the waiters
done_noCheck(q) == [q |-> [q EXCEPT !.ongoing = @ - 1], woke |-> <<>>]

done(q) == check([q EXCEPT !.ongoing = @ - 1])

\* constructor that always builds a queue of its own for audio
constructor_separate(parallel) ==
    [ffmpegQueues |-> [video |-> 1, audio |-> 2],
     heap |-> <<FFMpegQueue(parallel.video),
                FFMpegQueue(IF parallel.audio > 0 THEN parallel.audio ELSE 1)>>]

\* constructor: the audio queue is the video queue object itself when
\* parallel.audio is not positive.
constructor(parallel) ==
    IF parallel.audio > 0
    THEN [ffmpegQueues |-> [video |-> 1, audio |-> 2],
          heap |-> <<FFMpegQueue(parallel.video), FFMpegQueue(parallel.audio)>>]
    ELSE [ffmpegQueues |-> [video |-> 1, audio |-> 1],
          heap |-> <<FFMpegQueue(parallel.video)>>]

\* ---------------------------------------------------------------- numbers
\* A number of the program is a natural number or NaN; a comparison with NaN
\* is false.
NaN == -1
LessThan(a, b) == a # NaN /\ b # NaN /\ a < b
Plus(a, b) == IF a = NaN \/ b = NaN THEN NaN ELSE a + b
Times60(a) == IF a = NaN THEN NaN ELSE a * 60

\* ---------------------------------------------------------------- Plan
\* A cut argument is a timestamp or the word skip.  An entry of this.parts is
\* "false" (the index is disabled) or the suffix of the part.
Cut(t) == [kind |-> "time", t |-> t]
Skip == [kind |-> "skip", t |-> 0]
NoArg == [set |-> FALSE, t |-> 0]
Arg(t) == [set |-> TRUE, t |-> t]
Undefined == "undefined"

\* this.parts read one entry too far
partOptions_offByOne(parts, index) ==
    IF index + 2 <= Len(parts) THEN parts[index + 2] ELSE Undefined

partOptions(parts, index) ==
    IF index + 1 <= Len(parts) THEN parts[index + 1] ELSE Undefined

getPartInfo(start, end, index, options) ==
    [start |-> start, end |-> end, index |-> index,
     filename |-> IF options = Undefined
                  THEN [suffix |-> "_", n |-> index + 1]
                  ELSE [suffix |-> options, n |-> 0]]

\* a disabled index that leaves partStart where it was
PlanStep_disabledKeepsStart(cut, parts, w) ==
    IF cut.kind = "skip"
    THEN [w EXCEPT !.skipNext = TRUE]
    ELSE IF w.skipNext
    THEN [w EXCEPT !.skipNext = FALSE, !.partStart = cut.t]
    ELSE IF partOptions(parts, w.partI) = "false"
    THEN [w EXCEPT !.partI = @ + 1]
    ELSE [w EXCEPT !.partI = @ + 1, !.partStart = cut.t,
                   !.parts = Append(@, getPartInfo(w.partStart, cut.t, w.partI,
                                                   partOptions(parts, w.partI)))]

\* a skipped interval that uses up a part index
PlanStep_skipConsumesIndex(cut, parts, w) ==
    IF cut.kind = "skip"
    THEN [w EXCEPT !.skipNext = TRUE]
    ELSE IF w.skipNext
    THEN [w EXCEPT !.skipNext = FALSE, !.partStart = cut.t, !.partI = @ + 1]
    ELSE IF partOptions(parts, w.partI) = "false"
    THEN [w EXCEPT !.partI = @ + 1, !.partStart = cut.t]
    ELSE [w EXCEPT !.partI = @ + 1, !.partStart = cut.t,
                   !.parts = Append(@, getPartInfo(w.partStart, cut.t, w.partI,
                                                   partOptions(parts, w.partI)))]

\* one iteration of the loop over cuts; w = [parts, partStart, partI, skipNext]
PlanStep(cut, parts, w) ==
    IF cut.kind = "skip"
    THEN [w EXCEPT !.skipNext = TRUE]
    ELSE IF w.skipNext
    THEN [w EXCEPT !.skipNext = FALSE, !.partStart = cut.t]
    ELSE IF partOptions(parts, w.partI) = "false"
    THEN [w EXCEPT !.partI = @ + 1, !.partStart = cut.t]
    ELSE [w EXCEPT !.partI = @ + 1, !.partStart = cut.t,
                   !.parts = Append(@, getPartInfo(w.partStart, cut.t, w.partI,
                                                   partOptions(parts, w.partI)))]

RECURSIVE PlanWalk(_, _, _, _)
\* the loop over cuts, from cut k on
PlanWalk(cuts, k, parts, w) ==
    IF k > Len(cuts) THEN w
    ELSE PlanWalk(cuts, k + 1, parts, PlanStep(cuts[k], parts, w))

PlanParts(start, cuts, end, parts) ==
    LET w == PlanWalk(cuts, 1, parts,
                 [parts |-> <<>>, partStart |-> start, partI |-> 0, skipNext |-> FALSE])
    IN IF partOptions(parts, w.partI) # "false"
       THEN Append(w.parts, getPartInfo(w.partStart, end, w.partI,
                                        partOptions(parts, w.partI)))
       ELSE w.parts

\* the checks at the end of the Plan task; reading lastPart.end of an empty
\* list throws as well
PlanThrows(parts, duration) ==
    \/ \E i \in 1..Len(parts) : LessThan(parts[i].end, parts[i].start)
    \/ Len(parts) = 0
    \/ LessThan(duration, parts[Len(parts)].end)


\* The command lines tried by the run: one part, two parts, three parts, a disabled index,
\* a skipped interval, a negative duration, an end after the source end, and
\* every index disabled.
RunInputs ==
    {[start |-> NoArg, cuts |-> <<>>, end |-> NoArg, parts |-> <<>>],
     [start |-> NoArg, cuts |-> <<Cut(1)>>, end |-> NoArg, parts |-> <<"_pre">>],
     [start |-> NoArg, cuts |-> <<Cut(1), Cut(SourceDuration)>>, end |-> NoArg, parts |-> <<>>],
     [start |-> NoArg, cuts |-> <<Cut(1)>>, end |-> NoArg, parts |-> <<"false">>],
     [start |-> NoArg, cuts |-> <<Skip, Cut(1)>>, end |-> Arg(SourceDuration), parts |-> <<>>],
     [start |-> Arg(SourceDuration), cuts |-> <<Cut(1)>>, end |-> NoArg, parts |-> <<>>],
     [start |-> NoArg, cuts |-> <<>>, end |-> Arg(SourceDuration + 1), parts |-> <<>>],
     [start |-> NoArg, cuts |-> <<>>, end |-> NoArg, parts |-> <<"false">>]}

\* what the Plan task leaves behind for the arguments in and the ffprobe
\* duration: context.parts and the state the task settles in
PlanOutcome(in, duration) ==
    LET start == IF in.start.set THEN in.start.t ELSE 0
        end == IF in.end.set THEN in.end.t ELSE duration
        parts == PlanParts(start, in.cuts, end, in.parts)
    IN [parts |-> parts,
        state |-> IF PlanThrows(parts, duration) THEN "Failed" ELSE "Completed"]

\* ---------------------------------------------------------------- task tree
\* the processing group added ahead of the checklist
populateTasks_processingFirst ==
    <<"Processing", "Pre-run Checklist", "Post result to discord">>

\* the result posted ahead of the processing group
populateTasks_resultFirst ==
    <<"Pre-run Checklist", "Post result to discord", "Processing">>

\* populateTasks: the top-level tasks, in order
populateTasks == <<"Pre-run Checklist", "Processing", "Post result to discord">>

\* the published files generated ahead of the cuts
ProcessingTasks_publishFirst ==
    <<"Notifying discord of start", "Create local folders",
      "Generate published files", "Generate Cuts">>

\* the children of the processing group, in order
ProcessingTasks == <<"Notifying discord of start", "Create local folders",
                     "Generate Cuts", "Generate published files">>

\* the rollback given to the checklist group instead
RollbackGroup_checklist == "Pre-run Checklist"

\* the group that carries the rollback
RollbackGroup == "Processing"

\* 'Generate Cuts' without the concurrent option
GroupOptions_sequentialCuts ==
    [cuts |-> [concurrent |-> FALSE], pubs |-> [concurrent |-> TRUE]]

\* options of the two indentWithDiscordStatus groups
GroupOptions == [cuts |-> [concurrent |-> TRUE], pubs |-> [concurrent |-> TRUE]]

checklist ==
    <<"Environment: ffmpeg installed", "Environment: ffprobe installed",
      "Input file exists", "Output folder doesn't exist", "Check S3 access",
      "S3: no files in private", "S3: no files in public",
      "Input: ffprobe analyse", "Plan", "User confirmation">>

\* the upload listed before the encode
CutSteps_uploadFirst == <<"Wait for encoder slot", "Upload", "Encode cut">>

\* the steps of one part in getCuts and of one output file in getPublishedFiles
CutSteps == <<"Wait for encoder slot", "Encode cut", "Upload">>
PubSteps == <<"Wait for encoder slot", "Encode cut", "Upload">>

CheckLeaf(i) == L("check", i, 0, checklist[i])
ProcLeaf(s) == L("proc", 0, 0, s)
ResultLeaf == L("result", 0, 0, "Post result to discord")
SourceLeaf == L("cut", 0, 0, "Upload source")
CutLeaf(i, s) == L("cut", i, 0, s)
PubLeaf(i, f, s) == L("pub", i, f, s)

StaticLeaves ==
    {CheckLeaf(i) : i \in 1..Len(checklist)}
    \cup {ProcLeaf(ProcessingTasks[1]), ProcLeaf(ProcessingTasks[2]), ResultLeaf}

buckets == argv.upload # "false"

\* the enabled predicates of the task definitions
Enabled(t) ==
    CASE t.g = "check" /\ t.s \in {"Check S3 access", "S3: no files in private",
                                   "S3: no files in public"} -> buckets
      [] t.s = "Upload source" -> buckets /\ argv.upload # "noRaw"
      [] t.s = "Upload" -> buckets
      [] OTHER -> TRUE

\* the queue object an output format encodes on
formatQueue(format) == ffmpegQueues[format]

\* Sequential group: child k may be scheduled when all children before it are
\* Completed or Skipped; so the first Failed child stops the rest.
SeqReady(sts, k) == \A j \in 1..(k - 1) : sts[j] \in Done

ChildReady(concurrent, sts, k) == concurrent \/ SeqReady(sts, k)

\* The state of a group, a function of the states of its children.  A
\* concurrent group is Failed only when no child is still running.
GroupState(concurrent, sts, isStarted) ==
    IF ~isStarted THEN "Pending"
    ELSE IF \A k \in 1..Len(sts) : sts[k] \in Done THEN "Completed"
    ELSE IF /\ \E k \in 1..Len(sts) : sts[k] = "Failed"
            /\ concurrent => \A k \in 1..Len(sts) : sts[k] \in Terminal
         THEN "Failed"
    ELSE "Running"

Steps(g) == IF g = "cut" THEN CutSteps ELSE PubSteps
StepStates(g, i, f) == [k \in 1..3 |-> state[L(g, i, f, Steps(g)[k])]]
SubGroupState(g, i, f) == GroupState(FALSE, StepStates(g, i, f), TRUE)

NParts == Len(context.parts)
NFormats == Len(argv.formats)

\* children of 'Generate Cuts': the source upload, then one group per part
CutsChildren == <<state[SourceLeaf]>> \o [i \in 1..NParts |-> SubGroupState("cut", i, 0)]
\* children of 'Generate published files': one group per part and format
PubsChildren ==
    [n \in 1..(NParts * NFormats) |->
        SubGroupState("pub", ((n - 1) \div NFormats) + 1, ((n - 1) % NFormats) + 1)]

CutsState ==
    IF "cuts" \in started
    THEN GroupState(GroupOptions.cuts.concurrent, CutsChildren, TRUE) ELSE "Pending"
PubsState ==
    IF "pubs" \in started
    THEN GroupState(GroupOptions.pubs.concurrent, PubsChildren, TRUE) ELSE "Pending"

ChecklistStates == [i \in 1..Len(checklist) |-> state[CheckLeaf(i)]]
ChecklistState == GroupState(FALSE, ChecklistStates, TRUE)

ProcessingChild(s) ==
    CASE s = "Generate Cuts" -> CutsState
      [] s = "Generate published files" -> PubsState
      [] OTHER -> state[ProcLeaf(s)]
ProcessingStates == [k \in 1..Len(ProcessingTasks) |-> ProcessingChild(ProcessingTasks[k])]

TopState(s) ==
    CASE s = "Pre-run Checklist" -> ChecklistState
      [] s = "Processing" ->
            GroupState(FALSE, ProcessingStates,
                       \E k \in 1..Len(ProcessingTasks) : ProcessingStates[k] # "Pending")
      [] OTHER -> state[ResultLeaf]
TopStates == [k \in 1..Len(populateTasks) |-> TopState(populateTasks[k])]
TopReady(s) == SeqReady(TopStates, IndexOf(populateTasks, s))

ProcessingReady(s) ==
    /\ TopReady("Processing")
    /\ SeqReady(ProcessingStates, IndexOf(ProcessingTasks, s))

\* ---------------------------------------------------------------- durations
\* Time is counted in units of 1/SubMilli millisecond.  A timestamp text is
\* the sequence of its ':'-separated components; a component is a number
\* (its value in units), a number followed by other characters, or text
\* without a leading number.
HOUR == 60 * 60
MINUTE == 60
Second == 1000 * SubMilli
Num(v) == [kind |-> "num", v |-> v]
Lead(v) == [kind |-> "lead", v |-> v]
Junk == [kind |-> "junk", v |-> NaN]

\* Number.parseFloat of a component: the number a component starts with, NaN
\* when it starts with none
parseFloat(c) == IF c.kind \in {"num", "lead"} THEN c.v ELSE NaN

RECURSIVE reduce(_, _, _)
\* parts.reduce((sum, part) => (sum * 60) + Number.parseFloat(part), 0)
reduce(parts, k, sum) ==
    IF k > Len(parts) THEN sum
    ELSE reduce(parts, k + 1, Plus(Times60(sum), parseFloat(parts[k])))

\* parseDuration: throws for more than three components, else the sum
parseDuration(duration) ==
    IF Len(duration) > 3
    THEN [thrown |-> TRUE, value |-> NaN]
    ELSE [thrown |-> FALSE, value |-> reduce(duration, 1, 0)]

\* ms.toFixed(3) for a fraction of f units: the thousandths nearest to it;
\* halfway between two the double that stands for it decides
toFixed3(f) ==
    LET low == f \div SubMilli
        rest == f % SubMilli
    IN IF 2 * rest < SubMilli THEN {low}
       ELSE IF 2 * rest > SubMilli THEN {low + 1}
       ELSE {low, low + 1}

\* formatDuration for a duration of d units; fixed is the result of toFixed(3)
\* in thousandths, of which the digits behind the point are kept
formatDuration(d, fixed) ==
    LET whole == d \div Second
        hours == whole \div HOUR
        minutes == (whole % HOUR) \div MINUTE
        seconds == whole % MINUTE
        digits == fixed % 1000
    IN <<Num(hours * Second), Num(minutes * Second),
         Num((seconds * Second) + (digits * SubMilli))>>

\* /^\d/.test(v) ? parseDuration(v) : v for an entry of argv.cuts that is not
\* the word skip; the entry left as it is compares as NaN with every number
cutArg(v) ==
    IF v[1].kind \in {"num", "lead"} THEN parseDuration(v)
    ELSE [thrown |-> FALSE, value |-> NaN]

NoPlan == [parts |-> <<>>, state |-> "Pending"]
NoCodec ==
    [phase |-> "none", x |-> 0, text |-> <<>>, thrown |-> FALSE, parsed |-> 0,
     plan |-> NoPlan]

\* ---------------------------------------------------------------- runFFmpeg
\* The arguments of the 'close' event: the exit code, or null when the
\* process was ended by a signal.
Exit(n) == [null |-> FALSE, n |-> n]
Killed == [null |-> TRUE, n |-> 0]
NoCode == [null |-> TRUE, n |-> -1]
NoFailure == [kind |-> "none", code |-> NoCode, tail |-> <<>>]

\* runFFmpeg before the promise executor has run
NoProcess ==
    [phase |-> "idle", spawns |-> 0, output |-> <<>>, lines |-> 0,
     code |-> NoCode, settled |-> "pending", failure |-> NoFailure]

\* resolve() and reject() of a promise: only the first call settles it
settle(p, how, failure) ==
    IF p.settled # "pending" THEN p
    ELSE [p EXCEPT !.settled = how, !.failure = failure]

\* code > 0 in JavaScript: false for null
GreaterThanZero(code) == ~code.null /\ code.n > 0

\* if (output.length > 100) output.splice(0, output.length - 100)
OutputLimit == 100

\* the stderr 'data' handler for a chunk that is one complete line: a frame=
\* line replaces a frame= line before it, any other line is pushed
stderrData(output, line) ==
    LET pushed == IF Len(output) > 1 /\ line = "frame=" /\ output[Len(output)] = "frame="
                  THEN [output EXCEPT ![Len(output)] = line]
                  ELSE Append(output, line)
    IN IF Len(pushed) > OutputLimit
       THEN SubSeq(pushed, Len(pushed) - OutputLimit + 1, Len(pushed))
       ELSE pushed

\* the 'close' handler: reject when code > 0, then resolve()
closeHandler(p, code) ==
    LET rejected == IF GreaterThanZero(code)
                    THEN settle(p, "rejected",
                                [kind |-> "exit", code |-> code, tail |-> p.output])
                    ELSE p
    IN settle(rejected, "resolved", NoFailure)

\* the 'error' handler: reject(error)
errorHandler(p) ==
    settle(p, "rejected", [kind |-> "spawn", code |-> NoCode, tail |-> <<>>])

\* ---------------------------------------------------------------- the run
Configs ==
    [upload : {"false", "all", "noRaw"}, webhook : BOOLEAN,
     formats : {<<"video">>, <<"video", "audio">>},
     parallel : [video : 0..MaxParallel, audio : 0..MaxParallel]]

\* the reporter before indentWithDiscordStatus has run
NoStatus ==
    [inner |-> "Pending", interval |-> "unset", ticks |-> 0, timeout |-> FALSE,
     chain |-> <<>>, flight |-> {}, post |-> "post", messageId |-> 0,
     scheduled |-> 0, sent |-> <<>>]

\* the processor after its constructor, for configuration cfg
Boot(cfg) ==
    /\ argv = cfg
    /\ ffmpegQueues = constructor(cfg.parallel).ffmpegQueues
    /\ heap = constructor(cfg.parallel).heap
    /\ context = [duration |-> 0, parts |-> <<>>, raw |-> FALSE, uploads |-> <<>>]
    /\ state = [t \in StaticLeaves |-> "Pending"]
    /\ started = {}
    /\ procs = {}
    /\ holding = {}
    /\ rollbacks = 0
    /\ notices = <<>>
    /\ webhookErrors = <<>>
    /\ run = "running"
    /\ reported = <<>>
    /\ requests = <<>>

NoHistory ==
    /\ arrived = <<>>
    /\ admitted = <<>>
    /\ released = 0

Init ==
    /\ \E cfg \in Configs :
          \* without an audio format the audio queue is never used
          /\ "audio" \notin Range(cfg.formats) => cfg.parallel.audio = 0
          /\ Boot(cfg)
    /\ callers = <<>>
    /\ NoHistory
    /\ status = NoStatus
    /\ ffmpeg = NoProcess
    /\ codec = NoCodec

Settled(ok) == IF ok THEN "Completed" ELSE "Failed"

\* postWebHook that goes on to the request without a webhook
postWebHook_noGuard(errors, tag, ok) ==
    IF ok THEN errors ELSE Append(errors, tag)

\* postWebHook: nothing is sent without a webhook; a failed request is pushed
\* on webhookErrors and never thrown
postWebHook(errors, tag, ok) ==
    IF ~argv.webhook THEN errors
    ELSE IF ok THEN errors ELSE Append(errors, tag)

\* the requests of k calls of postWebHook: none without a webhook
got(reqs, k, tag) ==
    IF ~argv.webhook THEN reqs ELSE reqs \o [i \in 1..k |-> tag]

\* a disabled task is Skipped when the scheduler reaches it
SkipTask(t, ready) ==
    /\ run = "running"
    /\ t \in DOMAIN state /\ state[t] = "Pending"
    /\ ready
    /\ ~Enabled(t)
    /\ state' = [state EXCEPT ![t] = "Skipped"]
    /\ UNCHANGED <<argv, ffmpegQueues, heap, context, started, procs, holding,
                   rollbacks, notices, webhookErrors, run, reported, requests, queueVars>>

CheckReady(i) == TopReady("Pre-run Checklist") /\ SeqReady(ChecklistStates, i)

\* the environment and S3 checks: they succeed or throw
CheckStep(i) ==
    /\ run = "running"
    /\ checklist[i] \notin {"Input: ffprobe analyse", "Plan", "User confirmation"}
    /\ state[CheckLeaf(i)] = "Pending" /\ CheckReady(i) /\ Enabled(CheckLeaf(i))
    /\ \E ok \in BOOLEAN : state' = [state EXCEPT ![CheckLeaf(i)] = Settled(ok)]
    /\ UNCHANGED <<argv, ffmpegQueues, heap, context, started, procs, holding,
                   rollbacks, notices, webhookErrors, run, reported, requests, queueVars>>

Analyse ==
    LET t == CheckLeaf(IndexOf(checklist, "Input: ffprobe analyse")) IN
    /\ run = "running"
    /\ state[t] = "Pending" /\ CheckReady(t.p)
    /\ \E ok \in BOOLEAN :
          /\ state' = [state EXCEPT ![t] = Settled(ok)]
          /\ context' = IF ok THEN [context EXCEPT !.duration = SourceDuration]
                        ELSE context
    /\ UNCHANGED <<argv, ffmpegQueues, heap, started, procs, holding,
                   rollbacks, notices, webhookErrors, run, reported, requests, queueVars>>

Plan ==
    LET t == CheckLeaf(IndexOf(checklist, "Plan")) IN
    /\ run = "running"
    /\ state[t] = "Pending" /\ CheckReady(t.p)
    /\ \E in \in RunInputs :
          LET out == PlanOutcome(in, context.duration)
          IN /\ Len(out.parts) * NFormats <= MaxOutputs
             /\ context' = [context EXCEPT !.parts = out.parts]
             /\ state' = [state EXCEPT ![t] = out.state]
    /\ UNCHANGED <<argv, ffmpegQueues, heap, started, procs, holding,
                   rollbacks, notices, webhookErrors, run, reported, requests, queueVars>>

Confirm ==
    LET t == CheckLeaf(IndexOf(checklist, "User confirmation")) IN
    /\ run = "running"
    /\ state[t] = "Pending" /\ CheckReady(t.p)
    /\ \E force \in BOOLEAN, answer \in BOOLEAN :
          state' = [state EXCEPT ![t] = Settled(force \/ answer)]
    /\ UNCHANGED <<argv, ffmpegQueues, heap, context, started, procs, holding,
                   rollbacks, notices, webhookErrors, run, reported, requests, queueVars>>

NotifyStart ==
    LET t == ProcLeaf("Notifying discord of start") IN
    /\ run = "running"
    /\ state[t] = "Pending" /\ ProcessingReady(t.s)
    /\ \E ok \in BOOLEAN :
          webhookErrors' = postWebHook(webhookErrors, "start", ok)
    /\ notices' = Append(notices, "start")
    /\ requests' = got(requests, 1, "start")
    /\ state' = [state EXCEPT ![t] = "Completed"]
    /\ UNCHANGED <<argv, ffmpegQueues, heap, context, started, procs, holding,
                   rollbacks, run, reported, queueVars>>

CreateFolders ==
    LET t == ProcLeaf("Create local folders") IN
    /\ run = "running"
    /\ state[t] = "Pending" /\ ProcessingReady(t.s)
    /\ \E ok \in BOOLEAN : state' = [state EXCEPT ![t] = Settled(ok)]
    /\ context' = [context EXCEPT !.uploads =
                      [i \in 1..NParts |->
                          [part |-> i, location |-> 0,
                           outputs |-> [f \in 1..NFormats |-> 0]]]]
    /\ UNCHANGED <<argv, ffmpegQueues, heap, started, procs, holding,
                   rollbacks, notices, webhookErrors, run, reported, requests, queueVars>>

\* ---------------------------------------------------------------- cuts and published files
CutLeaves ==
    {SourceLeaf} \cup {CutLeaf(i, CutSteps[k]) : i \in 1..NParts, k \in 1..3}
PubLeaves ==
    {PubLeaf(i, f, PubSteps[k]) : i \in 1..NParts, f \in 1..NFormats, k \in 1..3}

GroupOf(t) == IF t.g = "cut" THEN "cuts" ELSE "pubs"
GroupTitle(grp) == IF grp = "cuts" THEN "Generate Cuts" ELSE "Generate published files"
Children(grp) == IF grp = "cuts" THEN CutsChildren ELSE PubsChildren
ChildIndex(t) == IF t.g = "cut" THEN t.p + 1 ELSE ((t.p - 1) * NFormats) + t.f

\* the queue object the steps of a group wait on and release
QueueOf(t) ==
    IF t.g = "cut" THEN ffmpegQueues.video ELSE formatQueue(argv.formats[t.f])

WaitLeafOf(t) == L(t.g, t.p, t.f, "Wait for encoder slot")

\* the scheduler reaches step t of its group
StepReady(t) ==
    /\ run = "running"
    /\ GroupOf(t) \in started
    /\ t \in DOMAIN state /\ state[t] = "Pending"
    /\ ChildReady(GroupOptions[GroupOf(t)].concurrent, Children(GroupOf(t)), ChildIndex(t))
    /\ t # SourceLeaf => SeqReady(StepStates(t.g, t.p, t.f), IndexOf(Steps(t.g), t.s))

\* the task function of an indentWithDiscordStatus group builds its subtasks
GroupStart(grp) ==
    /\ run = "running"
    /\ grp \notin started
    /\ ProcessingChild(GroupTitle(grp)) = "Pending"
    /\ ProcessingReady(GroupTitle(grp))
    /\ started' = started \cup {grp}
    /\ state' = [t \in DOMAIN state \cup (IF grp = "cuts" THEN CutLeaves ELSE PubLeaves) |->
                    IF t \in DOMAIN state THEN state[t] ELSE "Pending"]
    /\ UNCHANGED <<argv, ffmpegQueues, heap, context, procs, holding,
                   rollbacks, notices, webhookErrors, run, reported, requests, queueVars>>

Woken(r, t, st) ==
    [u \in DOMAIN state |->
        IF u \in Range(r.woke) THEN "Completed" ELSE IF u = t THEN st ELSE state[u]]

\* 'Wait for encoder slot': await queue.wait()
WaitStart(t) ==
    /\ t.s = "Wait for encoder slot"
    /\ StepReady(t)
    /\ LET r == wait(heap[QueueOf(t)], t) IN
          /\ heap' = [heap EXCEPT ![QueueOf(t)] = r.q]
          /\ state' = Woken(r, t, "Running")
          /\ holding' = holding \cup Range(r.woke)
    /\ UNCHANGED <<argv, ffmpegQueues, context, started, procs,
                   rollbacks, notices, webhookErrors, run, reported, requests, queueVars>>

\* 'Encode cut': runFFmpeg spawns the process
EncodeStart(t) ==
    /\ t.s = "Encode cut"
    /\ StepReady(t)
    /\ state' = [state EXCEPT ![t] = "Running"]
    /\ procs' = procs \cup {t}
    /\ UNCHANGED <<argv, ffmpegQueues, heap, context, started, holding,
                   rollbacks, notices, webhookErrors, run, reported, requests, queueVars>>

\* the outcome of runFFmpeg, a function of how the process ended
runFFmpeg(exit) ==
    LET p == [NoProcess EXCEPT !.phase = "running", !.spawns = 1]
        q == CASE exit = "zero" -> closeHandler(p, Exit(0))
               [] exit = "nonzero" -> closeHandler(p, Exit(1))
               [] exit = "signal" -> closeHandler(p, Killed)
               [] OTHER -> errorHandler(p)
    IN q.settled = "resolved"

\* queue.done() after the await instead of in a finally block
EncodeExit_noFinally(t) ==
    /\ t.s = "Encode cut"
    /\ t \in DOMAIN state /\ state[t] = "Running" /\ t \in procs
    /\ \E exit \in {"zero", "nonzero", "signal", "error"} :
          LET r == IF runFFmpeg(exit) THEN done(heap[QueueOf(t)])
                   ELSE [q |-> heap[QueueOf(t)], woke |-> <<>>] IN
             /\ heap' = [heap EXCEPT ![QueueOf(t)] = r.q]
             /\ state' = Woken(r, t, Settled(runFFmpeg(exit)))
             /\ holding' = (holding \ {WaitLeafOf(t)}) \cup Range(r.woke)
    /\ procs' = procs \ {t}
    /\ UNCHANGED <<argv, ffmpegQueues, context, started,
                   rollbacks, notices, webhookErrors, run, reported, requests, queueVars>>

\* the process closes or fails to launch; finally queue.done()
EncodeExit(t) ==
    /\ t.s = "Encode cut"
    /\ t \in DOMAIN state /\ state[t] = "Running" /\ t \in procs
    /\ \E exit \in {"zero", "nonzero", "signal", "error"} :
          LET r == done(heap[QueueOf(t)]) IN
             /\ heap' = [heap EXCEPT ![QueueOf(t)] = r.q]
             /\ state' = Woken(r, t, Settled(runFFmpeg(exit)))
             /\ holding' = (holding \ {WaitLeafOf(t)}) \cup Range(r.woke)
    /\ procs' = procs \ {t}
    /\ UNCHANGED <<argv, ffmpegQueues, context, started,
                   rollbacks, notices, webhookErrors, run, reported, requests, queueVars>>

UploadStart(t) ==
    /\ t.s \in {"Upload", "Upload source"}
    /\ StepReady(t)
    /\ Enabled(t)
    /\ state' = [state EXCEPT ![t] = "Running"]
    /\ UNCHANGED <<argv, ffmpegQueues, heap, context, started, procs, holding,
                   rollbacks, notices, webhookErrors, run, reported, requests, queueVars>>

\* the entry of context.uploads.parts the upload of part position p writes to
UploadSlot(p) == context.parts[p].index + 1

\* upload.done() settles; on success the location is stored in context.uploads
UploadSettle(t) ==
    /\ t.s \in {"Upload", "Upload source"}
    /\ t \in DOMAIN state /\ state[t] = "Running"
    /\ \E ok \in BOOLEAN :
          IF ~ok THEN state' = [state EXCEPT ![t] = "Failed"] /\ UNCHANGED context
          ELSE IF t = SourceLeaf
          THEN /\ state' = [state EXCEPT ![t] = "Completed"]
               /\ context' = [context EXCEPT !.raw = TRUE]
          ELSE IF UploadSlot(t.p) > Len(context.uploads)
          THEN state' = [state EXCEPT ![t] = "Failed"] /\ UNCHANGED context
          ELSE /\ state' = [state EXCEPT ![t] = "Completed"]
               /\ context' =
                     IF t.g = "cut"
                     THEN [context EXCEPT !.uploads[UploadSlot(t.p)].location = t.p]
                     ELSE [context EXCEPT !.uploads[UploadSlot(t.p)].outputs[t.f] = t.p]
    /\ UNCHANGED <<argv, ffmpegQueues, heap, started, procs, holding,
                   rollbacks, notices, webhookErrors, run, reported, requests, queueVars>>

\* ---------------------------------------------------------------- end of the run
\* the rollback of the processing group: the error notification
Rollback ==
    /\ run = "running"
    /\ TopState(RollbackGroup) = "Failed"
    /\ rollbacks = 0
    /\ rollbacks' = rollbacks + 1
    /\ notices' = Append(notices, "error")
    /\ \E ok \in BOOLEAN : webhookErrors' = postWebHook(webhookErrors, "error", ok)
    /\ requests' = got(requests, 1, "error")
    /\ UNCHANGED <<argv, ffmpegQueues, heap, context, state, started, procs,
                   holding, run, reported, queueVars>>

\* resultToWebhook: one message for a local run, four with uploads
resultToWebhook ==
    /\ run = "running"
    /\ state[ResultLeaf] = "Pending" /\ TopReady("Post result to discord")
    /\ notices' = Append(notices, "tada")
    /\ \E failed \in 0..(IF buckets THEN 4 ELSE 1) :
          webhookErrors' = IF argv.webhook
                           THEN webhookErrors \o [k \in 1..failed |-> "result"]
                           ELSE webhookErrors
    /\ requests' = got(requests, IF buckets THEN 4 ELSE 1, "result")
    /\ state' = [state EXCEPT ![ResultLeaf] = "Completed"]
    /\ UNCHANGED <<argv, ffmpegQueues, heap, context, started, procs, holding,
                   rollbacks, run, reported, queueVars>>

\* console.error(this.webhookErrors.slice(0, 5))
ShownErrors == 5

\* run(): await runAll(), then the report of the webhook errors.  runAll
\* settles rejected once a top-level task Failed (after the rollback of the
\* group that carries one), and run() rejects with it before the report;
\* it resolves when all tasks are done.
RunSettle ==
    /\ run = "running"
    /\ \/ /\ \E k \in 1..Len(populateTasks) :
                /\ TopStates[k] = "Failed"
                /\ populateTasks[k] = RollbackGroup => rollbacks > 0
          /\ run' = "rejected"
          /\ UNCHANGED reported
       \/ /\ \A k \in 1..Len(populateTasks) : TopStates[k] \in Done
          /\ run' = "resolved"
          /\ reported' = IF Len(webhookErrors) > 0
                         THEN SubSeq(webhookErrors, 1, Min(ShownErrors, Len(webhookErrors)))
                         ELSE <<>>
    /\ UNCHANGED <<argv, ffmpegQueues, heap, context, state, started, procs,
                   holding, rollbacks, notices, webhookErrors, requests, queueVars>>

\* the leaves created by the two dynamic groups
DynamicLeaves == {t \in DOMAIN state : t.g \in {"cut", "pub"}}

Schedule ==
    \/ \E i \in 1..Len(checklist) : CheckStep(i)
    \/ \E i \in 1..Len(checklist) : SkipTask(CheckLeaf(i), CheckReady(i))
    \/ Analyse
    \/ Plan
    \/ Confirm
    \/ NotifyStart
    \/ CreateFolders
    \/ \E grp \in {"cuts", "pubs"} : GroupStart(grp)
    \/ \E t \in DynamicLeaves : SkipTask(t, StepReady(t))

Next ==
    \/ Schedule
    \/ \E t \in DynamicLeaves : WaitStart(t)
    \/ \E t \in DynamicLeaves : EncodeStart(t)
    \/ \E t \in DynamicLeaves : EncodeExit(t)
    \/ \E t \in DynamicLeaves : UploadStart(t)
    \/ \E t \in DynamicLeaves : UploadSettle(t)
    \/ Rollback
    \/ resultToWebhook
    \/ RunSettle

Spec == Init /\ [][Next]_vars

\* The run under the event loop: a task that is ready is started, and a
\* started ffmpeg process exits and a started upload settles.
Starts ==
    \/ Schedule
    \/ \E t \in DynamicLeaves : WaitStart(t)
    \/ \E t \in DynamicLeaves : EncodeStart(t)
    \/ \E t \in DynamicLeaves : UploadStart(t)
Settles ==
    \/ \E t \in DynamicLeaves : EncodeExit(t)
    \/ \E t \in DynamicLeaves : UploadSettle(t)
Fairness == WF_vars(Starts) /\ WF_vars(Settles)

\* runs without a webhook: one video encode at a time or MaxParallel, audio
\* on the video queue or on a queue of its own
InitLive ==
    /\ \E cfg \in Configs :
          /\ ~cfg.webhook
          /\ cfg.upload \in {"false", "noRaw"}
          /\ cfg.parallel.video \in {1, MaxParallel}
          /\ cfg.parallel.audio \in {0, 1}
          /\ "audio" \notin Range(cfg.formats) => cfg.parallel.audio = 0
          /\ Boot(cfg)
    /\ callers = <<>>
    /\ NoHistory
    /\ status = NoStatus
    /\ ffmpeg = NoProcess
    /\ codec = NoCodec

SpecLive == InitLive /\ [][Next]_vars /\ Fairness

\* ---------------------------------------------------------------- SpecQueue
\* One FFMpegQueue and MaxCallers tasks.  Each task calls wait() and, once its
\* promise is resolved, done(), as the steps of getCuts and getPublishedFiles do.
LocalConfig(webhook, video) ==
    [upload |-> "false", webhook |-> webhook, formats |-> <<"video">>,
     parallel |-> [video |-> video, audio |-> 0]]

InitQueue ==
    /\ \E p \in 0..MaxParallel : Boot(LocalConfig(FALSE, p))
    /\ callers = [c \in 1..MaxCallers |-> "idle"]
    /\ NoHistory
    /\ status = NoStatus
    /\ ffmpeg = NoProcess
    /\ codec = NoCodec

TheQueue == ffmpegQueues.video

CallWait(c) ==
    /\ callers[c] = "idle"
    /\ LET r == wait(heap[TheQueue], c) IN
          /\ heap' = [heap EXCEPT ![TheQueue] = r.q]
          /\ admitted' = admitted \o r.woke
          /\ callers' = [d \in DOMAIN callers |->
                            IF d \in Range(r.woke) THEN "admitted"
                            ELSE IF d = c THEN "waiting" ELSE callers[d]]
    /\ arrived' = Append(arrived, c)
    /\ UNCHANGED <<runVars, released, status, ffmpeg, codec>>

CallDone(c) ==
    /\ callers[c] = "admitted"
    /\ LET r == done(heap[TheQueue]) IN
          /\ heap' = [heap EXCEPT ![TheQueue] = r.q]
          /\ admitted' = admitted \o r.woke
          /\ callers' = [d \in DOMAIN callers |->
                            IF d \in Range(r.woke) THEN "admitted"
                            ELSE IF d = c THEN "released" ELSE callers[d]]
    /\ released' = released + 1
    /\ UNCHANGED <<runVars, arrived, status, ffmpeg, codec>>

NextQueue ==
    \/ \E c \in DOMAIN callers : CallWait(c)
    \/ \E c \in DOMAIN callers : CallDone(c)

SpecQueue == InitQueue /\ [][NextQueue]_vars

\* ---------------------------------------------------------------- SpecStatus
\* One reporter of indentWithDiscordStatus around a subtree whose state is
\* status.inner.  chain holds the snapshots scheduled by postStatusUpdate whose
\* callback has not run yet, post the value the chain hands to the next
\* callback, flight the requests of postWebHook that have not settled.
InitStatus ==
    /\ \E w \in BOOLEAN : Boot(LocalConfig(w, 1))
    /\ callers = <<>>
    /\ NoHistory
    /\ status = NoStatus
    /\ ffmpeg = NoProcess
    /\ codec = NoCodec

isPending(r) == r.inner = "Running"

\* chain = chain.then(...): one more callback behind the ones already chained
postStatusUpdate(r) ==
    [r EXCEPT !.chain = Append(@, r.scheduled + 1), !.scheduled = @ + 1]

\* callbacks that do not wait for the promise before them
chainSettled_unchained(r) == TRUE

\* a callback of the chain runs when the promise before it has settled
chainSettled(r) == r.flight = {}

\* the task function: setInterval, subscribe, setTimeout, newListr
StatusStart ==
    /\ status.inner = "Pending"
    /\ status' = [status EXCEPT !.inner = "Running", !.interval = "set",
                                !.timeout = TRUE]
    /\ UNCHANGED <<runVars, heap, callers, arrived, admitted, released, ffmpeg, codec>>

\* setTimeout(postStatusUpdate, 1)
StatusTimeout ==
    /\ status.timeout
    /\ status' = postStatusUpdate([status EXCEPT !.timeout = FALSE])
    /\ UNCHANGED <<runVars, heap, callers, arrived, admitted, released, ffmpeg, codec>>

\* the interval fires
StatusTick ==
    /\ status.interval = "set"
    /\ status.ticks < MaxTicks
    /\ status' = postStatusUpdate([status EXCEPT !.ticks = @ + 1])
    /\ UNCHANGED <<runVars, heap, callers, arrived, admitted, released, ffmpeg, codec>>

\* the subtree settles; the subscriber sees a task that is no longer pending
StatusSubscriber ==
    /\ status.inner = "Running"
    /\ \E st \in {"Completed", "Failed"} :
          LET r == [status EXCEPT !.inner = st] IN
          status' = IF ~isPending(r)
                    THEN postStatusUpdate([r EXCEPT !.interval = "cleared"])
                    ELSE r
    /\ UNCHANGED <<runVars, heap, callers, arrived, admitted, released, ffmpeg, codec>>

\* method: messageId ? 'PATCH' : 'POST'
requestMethod(messageId) == IF messageId # 0 THEN "PATCH" ELSE "POST"

\* body.id of the response: the id of the message edited by a PATCH, the id
\* of the message created by a POST (request n creates message n)
responseId(n, messageId) == IF messageId # 0 THEN messageId ELSE n

\* a successful request hands back the plain sender again
postWebHookReturn_unbound(ok, id) ==
    IF ok THEN [post |-> "post", messageId |-> 0]
    ELSE [post |-> "none", messageId |-> 0]

\* what postWebHook resolves to: a function bound to body.id after a
\* response, undefined after an error
postWebHookReturn(ok, id) ==
    IF ok THEN [post |-> "edit", messageId |-> id]
    ELSE [post |-> "none", messageId |-> 0]

statusIcon(r) ==
    IF r.inner = "Completed" THEN ":green_circle:"
    ELSE IF r.inner = "Failed" THEN ":red_circle:" ELSE ":yellow_circle:"

\* the next callback of the chain: render the snapshot and hand it to post.
\* Without a webhook postWebHook returns undefined at once.
StatusChain ==
    /\ Len(status.chain) > 0
    /\ chainSettled(status)
    /\ LET n == Head(status.chain)
           r == [status EXCEPT !.chain = Tail(@)]
       IN status' =
             IF r.post = "none" THEN r
             ELSE IF ~argv.webhook THEN [r EXCEPT !.post = "none"]
             ELSE [r EXCEPT !.flight = @ \cup {n},
                            !.sent = Append(@, [n |-> n,
                                                method |-> requestMethod(r.messageId),
                                                messageId |-> r.messageId,
                                                icon |-> statusIcon(r)])]
    /\ UNCHANGED <<runVars, heap, callers, arrived, admitted, released, ffmpeg, codec>>

\* the request settles: the response gives the function that edits the
\* message, an error is pushed on webhookErrors and gives undefined
StatusSettle ==
    /\ \E n \in status.flight, ok \in BOOLEAN :
          /\ LET ret == postWebHookReturn(ok, responseId(n, status.messageId)) IN
                status' = [status EXCEPT !.flight = @ \ {n}, !.post = ret.post,
                                         !.messageId = ret.messageId]
          /\ webhookErrors' = postWebHook(webhookErrors, "status", ok)
    /\ UNCHANGED <<argv, ffmpegQueues, heap, context, state, started, procs,
                   holding, rollbacks, notices, run, reported, requests, callers,
                   arrived, admitted, released, ffmpeg, codec>>

NextStatus ==
    \/ StatusStart
    \/ StatusTimeout
    \/ StatusTick
    \/ StatusSubscriber
    \/ StatusChain
    \/ StatusSettle

SpecStatus == InitStatus /\ [][NextStatus]_vars

\* ---------------------------------------------------------------- SpecPlan
\* The Plan task as a function of the command line, the preset's parts and the
\* ffprobe duration.  Times are whole seconds up to one past the source end.
Times == 0..(SourceDuration + 1)
TimeArgs == {NoArg} \cup {Arg(t) : t \in Times}
CutArgs == {Cut(t) : t \in Times} \cup {Skip}
SeqsUpTo(S, n) == UNION {[1..k -> S] : k \in 0..n}

\* README, 'Skipping parts': the preset with the second part set to false
DisabledSecond == <<"_episode", "false", "_bonus">>
\* pod-knight ... -s 01:00 02:00 03:00 -e 04:00 with that preset
ReadmeDisabled ==
    [start |-> Arg(60), cuts |-> <<Cut(120), Cut(180)>>, end |-> Arg(240),
     parts |-> DisabledSecond]
\* pod-knight ... -s 01:00 02:00 skip 03:00 -e 04:00
ReadmeSkip(parts) ==
    [start |-> Arg(60), cuts |-> <<Cut(120), Skip, Cut(180)>>, end |-> Arg(240),
     parts |-> parts]

PlanInputs ==
    [start : TimeArgs, cuts : SeqsUpTo(CutArgs, MaxCuts), end : TimeArgs,
     parts : SeqsUpTo({"false", "_episode"}, MaxPartSpecs)]
    \cup [start : TimeArgs,
          cuts : UNION {[1..k -> {Cut(t) : t \in Times}] :
                          k \in {Len(DisabledSecond) - 1, Len(DisabledSecond)}},
          end : TimeArgs, parts : {DisabledSecond}]
    \cup {ReadmeDisabled, ReadmeSkip(<<>>), ReadmeSkip(<<"_pre", "", "_post">>)}

InitPlan ==
    /\ \E in \in PlanInputs : Boot(LocalConfig(FALSE, 1) @@ in)
    /\ callers = <<>>
    /\ NoHistory
    /\ status = NoStatus
    /\ ffmpeg = NoProcess
    /\ codec = NoCodec

AnalyseLeaf == CheckLeaf(IndexOf(checklist, "Input: ffprobe analyse"))
PlanLeaf == CheckLeaf(IndexOf(checklist, "Plan"))

\* ffprobe reports the duration of the source: the short source of the run,
\* or a source that ends where the command line ends the last part
ProbeInput ==
    /\ state[AnalyseLeaf] = "Pending"
    /\ \E d \in {SourceDuration, IF argv.end.set THEN argv.end.t ELSE SourceDuration} :
          context' = [context EXCEPT !.duration = d]
    /\ state' = [state EXCEPT ![AnalyseLeaf] = "Completed"]
    /\ UNCHANGED <<argv, ffmpegQueues, heap, started, procs, holding,
                   rollbacks, notices, webhookErrors, run, reported, requests, queueVars>>

\* the Plan task on this.argv and this.parts
PlanInput ==
    /\ state[AnalyseLeaf] = "Completed"
    /\ state[PlanLeaf] = "Pending"
    /\ LET out == PlanOutcome(argv, context.duration)
       IN /\ context' = [context EXCEPT !.parts = out.parts]
          /\ state' = [state EXCEPT ![PlanLeaf] = out.state]
    /\ UNCHANGED <<argv, ffmpegQueues, heap, started, procs, holding,
                   rollbacks, notices, webhookErrors, run, reported, requests, queueVars>>

NextPlan ==
    \/ ProbeInput
    \/ PlanInput

SpecPlan == InitPlan /\ [][NextPlan]_vars

\* ---------------------------------------------------------------- SpecFFmpeg
\* One call of runFFmpeg: the child process writes lines to stderr and then
\* closes with an exit code or by a signal, or it cannot be launched.
InitFFmpeg ==
    /\ Boot(LocalConfig(FALSE, 1))
    /\ callers = <<>>
    /\ NoHistory
    /\ status = NoStatus
    /\ ffmpeg = NoProcess
    /\ codec = NoCodec

\* spawn('ffmpeg', args)
Spawn ==
    /\ ffmpeg.phase = "idle"
    /\ ffmpeg' = [ffmpeg EXCEPT !.phase = "running", !.spawns = @ + 1]
    /\ UNCHANGED <<runVars, heap, callers, arrived, admitted, released, status, codec>>

StderrLine ==
    /\ ffmpeg.phase = "running"
    /\ ffmpeg.lines < MaxLines
    /\ \E line \in {"frame=", "text"} :
          ffmpeg' = [ffmpeg EXCEPT !.output = stderrData(@, line), !.lines = @ + 1]
    /\ UNCHANGED <<runVars, heap, callers, arrived, admitted, released, status, codec>>

\* the process ends: 'close' with its exit code, or with null after a signal
ProcessClose ==
    /\ ffmpeg.phase = "running"
    /\ \E code \in {Killed} \cup {Exit(n) : n \in 0..MaxExitCode} :
          ffmpeg' = closeHandler([ffmpeg EXCEPT !.phase = "closed", !.code = code], code)
    /\ UNCHANGED <<runVars, heap, callers, arrived, admitted, released, status, codec>>

\* the process could not be launched: 'error'
LaunchError ==
    /\ ffmpeg.phase = "running"
    /\ ffmpeg.lines = 0
    /\ ffmpeg' = errorHandler([ffmpeg EXCEPT !.phase = "failed"])
    /\ UNCHANGED <<runVars, heap, callers, arrived, admitted, released, status, codec>>

\* 'close' after 'error', with the negative errno of the failed launch
CloseAfterError ==
    /\ ffmpeg.phase = "failed"
    /\ ffmpeg' = closeHandler([ffmpeg EXCEPT !.phase = "closed", !.code = Exit(-2)],
                              Exit(-2))
    /\ UNCHANGED <<runVars, heap, callers, arrived, admitted, released, status, codec>>

NextFFmpeg ==
    \/ Spawn
    \/ StderrLine
    \/ ProcessClose
    \/ LaunchError
    \/ CloseAfterError

SpecFFmpeg == InitFFmpeg /\ [][NextFFmpeg]_vars

\* ---------------------------------------------------------------- SpecCodec
\* formatDuration followed by parseDuration on durations with hours, minutes,
\* seconds and a fraction finer than a millisecond.
Durations ==
    {((((h * HOUR) + (m * MINUTE) + sec) * 1000) + ms) * SubMilli + sub :
        h \in 0..MaxHours, m \in {0, MINUTE - 1}, sec \in {0, MINUTE - 1},
        ms \in {0, 1, 998, 999}, sub \in 0..(SubMilli - 1)}

\* timestamp texts of one to MaxComponents components, each the number 1,
\* 1 followed by other characters, or no number at all
Components == {Num(Second), Lead(Second), Junk}
Texts == UNION {[1..n -> Components] : n \in 1..MaxComponents}

InitCodec ==
    /\ Boot(LocalConfig(FALSE, 1))
    /\ callers = <<>>
    /\ NoHistory
    /\ status = NoStatus
    /\ ffmpeg = NoProcess
    /\ \/ \E x \in Durations :
             codec = [NoCodec EXCEPT !.phase = "duration", !.x = x]
       \/ \E text \in Texts :
             codec = [NoCodec EXCEPT !.phase = "text", !.text = text]

FormatStep ==
    /\ codec.phase = "duration"
    /\ \E fixed \in toFixed3(codec.x % Second) :
          codec' = [codec EXCEPT !.phase = "text", !.text = formatDuration(codec.x, fixed)]
    /\ UNCHANGED <<runVars, heap, callers, arrived, admitted, released, status, ffmpeg>>

ParseStep ==
    /\ codec.phase = "text"
    /\ LET r == parseDuration(codec.text) IN
          codec' = [codec EXCEPT !.phase = "parsed", !.thrown = r.thrown,
                                 !.parsed = r.value]
    /\ UNCHANGED <<runVars, heap, callers, arrived, admitted, released, status, ffmpeg>>

\* the Plan task for the one cut argument codec.text, default parts and a
\* source of SourceDuration seconds
PlanCut ==
    /\ codec.phase = "text"
    /\ LET cut == cutArg(codec.text)
           in == [start |-> NoArg, cuts |-> <<Cut(cut.value)>>, end |-> NoArg,
                  parts |-> <<>>]
       IN codec' = [codec EXCEPT
              !.phase = "planned",
              !.thrown = cut.thrown,
              !.plan = IF cut.thrown THEN [parts |-> <<>>, state |-> "Failed"]
                       ELSE PlanOutcome(in, SourceDuration * Second)]
    /\ UNCHANGED <<runVars, heap, callers, arrived, admitted, released, status, ffmpeg>>

NextCodec ==
    \/ FormatStep
    \/ ParseStep
    \/ PlanCut

SpecCodec == InitCodec /\ [][NextCodec]_vars

\* ---------------------------------------------------------------- properties
EncodesOn(g) == {t \in procs : QueueOf(t) = g}
HoldersOf(g) == {t \in holding : QueueOf(t) = g}
EncodeType(t) == IF t.g = "cut" THEN "video" ELSE argv.formats[t.f]
EncodesOfType(type) == {t \in procs : EncodeType(t) = type}

\* C1: the number of ffmpeg processes running against a queue never exceeds
\* the capacity of that queue, and a process runs only while its task holds
\* an admission: after its wait() was admitted and before its done().
C1_EncodesWithinCapacity ==
    /\ \A g \in DOMAIN heap : Cardinality(EncodesOn(g)) <= heap[g].parallel
    /\ \A t \in procs : WaitLeafOf(t) \in holding

\* encodes fill the queue while another task is still waiting for a slot
C1_Witness ==
    \E g \in DOMAIN heap :
        /\ heap[g].parallel >= 1
        /\ Cardinality(EncodesOn(g)) = heap[g].parallel
        /\ Len(heap[g].queue) > 0

\* C2: in every state of the run 0 <= ongoing <= parallel for every queue,
\* and ongoing counts exactly the admissions not yet given back by done():
\* it moves only with an admission in check() and with done().
C2_OngoingBounded ==
    \A g \in DOMAIN heap :
        /\ 0 <= heap[g].ongoing
        /\ heap[g].ongoing <= heap[g].parallel
        /\ heap[g].ongoing = Cardinality(HoldersOf(g))

\* a queue is full again after a done(), with a task still waiting
C2_Witness ==
    \E g \in DOMAIN heap :
        /\ heap[g].ongoing = heap[g].parallel
        /\ heap[g].ongoing >= 1
        /\ Len(heap[g].queue) > 0
        /\ \E t \in DOMAIN state :
              t.s = "Encode cut" /\ QueueOf(t) = g /\ state[t] \in {"Completed", "Failed"}

\* C3: of the wait() calls made so far exactly min(calls, capacity + done()
\* calls) are admitted: capacity at once on an idle queue, one more per
\* done(); the others are still queued, in the order of their calls.
C3_AdmitsCapacityThenOnePerDone ==
    LET q == heap[TheQueue] IN
    /\ Len(admitted) = Min(Len(arrived), q.parallel + released)
    /\ q.queue = SubSeq(arrived, Len(admitted) + 1, Len(arrived))

\* capacity+2 calls, the first done() admitted exactly one of the two waiters
C3_Witness ==
    LET q == heap[TheQueue] IN
    /\ q.parallel >= 1
    /\ Len(arrived) >= q.parallel + 2
    /\ released = 1
    /\ Len(admitted) = q.parallel + 1

\* C4: admissions happen in the order of the wait() calls: the admitted
\* callers are always the first callers, in call order, so no later caller
\* is admitted before an earlier one.
C4_FifoAdmission == IsPrefix(admitted, arrived)

\* two callers were queued together and both were admitted by done() calls
C4_Witness ==
    LET q == heap[TheQueue] IN
    /\ q.parallel >= 1
    /\ released >= 2
    /\ Len(admitted) >= q.parallel + 2
    /\ Len(q.queue) > 0

ChecklistFailed == \E i \in 1..Len(checklist) : state[CheckLeaf(i)] = "Failed"
EncodeStarted ==
    \E t \in DynamicLeaves : t.s = "Encode cut" /\ state[t] # "Pending"
UploadStarted ==
    \E t \in DynamicLeaves :
        t.s \in {"Upload", "Upload source"} /\ state[t] \in {"Running", "Completed", "Failed"}

\* C6: when a step of the Pre-run Checklist has failed, no ffmpeg encode was
\* or is ever started in that run and no upload is ever performed.
C6_ChecklistFailureStopsRun ==
    ChecklistFailed => procs = {} /\ ~EncodeStarted /\ ~UploadStarted

\* the Plan step rejected the plan and the run ended without any encode
C6_Witness ==
    /\ state[CheckLeaf(IndexOf(checklist, "Plan"))] = "Failed"
    /\ Len(context.parts) > 0
    /\ run = "rejected"
    /\ ~EncodeStarted /\ ~UploadStarted

GroupStateOf(grp) == IF grp = "cuts" THEN CutsState ELSE PubsState

FailedOnlyWhenAllTerminal ==
    \A grp \in started :
        GroupStateOf(grp) = "Failed" =>
            \A k \in 1..Len(Children(grp)) : Children(grp)[k] \in Terminal

\* a step that takes a running task to Failed or Skipped is the settling of
\* that task, not the failure of another task
NoCancel ==
    \A t \in DOMAIN state :
        (state[t] = "Running" /\ state'[t] \in {"Failed", "Skipped"}) =>
            \A u \in DOMAIN state \ {t} : ~(state[u] # "Failed" /\ state'[u] = "Failed")

\* C7: 'Generate Cuts' and 'Generate published files' are Failed only when
\* every one of their children is in a terminal state, and the failure of a
\* child never ends a sibling that is running.  The source only sets
\* concurrent: true (GroupOptions); when a concurrent group becomes Failed is
\* decided by GroupState, which is written from section 4.5 and not from
\* listr2, so this holds of the model by the semantics assumed there.
C7_ConcurrentFailsAfterAllSettle ==
    [](FailedOnlyWhenAllTerminal) /\ [][NoCancel]_vars

\* 'Generate Cuts' is Failed with one Failed part and the other children done
C7_Witness ==
    /\ "cuts" \in started
    /\ NParts >= 2
    /\ CutsState = "Failed"
    /\ Cardinality({k \in 1..Len(CutsChildren) : CutsChildren[k] = "Failed"}) = 1
    /\ \E k \in 2..Len(CutsChildren) : CutsChildren[k] = "Completed"

ProcessingLeaves ==
    {ProcLeaf(ProcessingTasks[1]), ProcLeaf(ProcessingTasks[2])} \cup DynamicLeaves
DescendantFailed == \E t \in ProcessingLeaves : state[t] = "Failed"

\* C8: the rollback of the processing group runs at most once; it runs only
\* when a task below that group has Failed and none of them is still
\* running; and a run that ended with such a failure has run it.  The moment
\* at which the rollback runs follows GroupState (section 4.5), as for C7.
C8_RollbackOnceAfterSettle ==
    /\ rollbacks <= 1
    /\ rollbacks = 1 =>
          /\ DescendantFailed
          /\ \A t \in ProcessingLeaves : state[t] # "Running"
    /\ (run # "running" /\ DescendantFailed) => rollbacks = 1

\* the rollback ran after a failed part, with a sibling part completed
C8_Witness ==
    /\ rollbacks = 1
    /\ run = "rejected"
    /\ "cuts" \in started
    /\ \E i \in 1..NParts : SubGroupState("cut", i, 0) = "Failed"
    /\ \E i \in 1..NParts : SubGroupState("cut", i, 0) = "Completed"

StepOf(t, s) == state[L(t.g, t.p, t.f, s)]

\* C9: in the group of every part and of every output file the encode is
\* started only after the wait Completed and the upload is reached only
\* after the encode Completed: a Failed step leaves the later steps Pending.
C9_StepsInOrder ==
    \A t \in DynamicLeaves :
        /\ (t.s = "Encode cut" /\ state[t] # "Pending") =>
              StepOf(t, "Wait for encoder slot") = "Completed"
        /\ (t.s = "Upload" /\ state[t] # "Pending") =>
              StepOf(t, "Encode cut") = "Completed"

\* one part uploads after its encode while the upload of a part whose encode
\* Failed stays Pending
C9_Witness ==
    /\ \E t \in DynamicLeaves :
          t.s = "Upload" /\ state[t] = "Running" /\ StepOf(t, "Encode cut") = "Completed"
    /\ \E t \in DynamicLeaves :
          t.s = "Upload" /\ state[t] = "Pending" /\ StepOf(t, "Encode cut") = "Failed"

\* C10: a reporter never has two postWebHook requests in flight, a snapshot
\* is rendered and sent only when the request before it has settled, and the
\* snapshots are sent in the order in which postStatusUpdate scheduled them.
C10_SnapshotsSerialized ==
    /\ Cardinality(status.flight) <= 1
    /\ \A i, j \in 1..Len(status.sent) : i < j => status.sent[i].n < status.sent[j].n
    /\ \A k \in 1..Len(status.chain), i \in 1..Len(status.sent) :
          status.sent[i].n < status.chain[k]
    /\ \A n \in status.flight : status.sent[Len(status.sent)].n = n

\* a second snapshot is in flight while a third one waits behind it
C10_Witness ==
    /\ status.flight # {}
    /\ Len(status.sent) >= 2
    /\ Len(status.chain) > 0

Quiescent ==
    status.chain = <<>> /\ status.flight = {} /\ ~status.timeout
FinalSnapshots ==
    {i \in 1..Len(status.sent) : status.sent[i].icon # ":yellow_circle:"}

\* C11: once the wrapped subtree is Completed or Failed the interval is
\* cleared, and when the reporter has nothing left to send exactly one
\* snapshot showing the terminal state has been sent.
C11_OneFinalSnapshot ==
    (argv.webhook /\ status.inner \in {"Completed", "Failed"}) =>
        /\ status.interval = "cleared"
        /\ Quiescent => Cardinality(FinalSnapshots) = 1

\* C12: a failed request is recorded on webhookErrors and the reporter goes
\* on: every snapshot whose callback has run was transmitted.
C12_ReportingContinues ==
    argv.webhook =>
        /\ status.post = "none" => Len(webhookErrors) > 0
        /\ \A n \in 1..status.scheduled :
              n \notin Range(status.chain) =>
                  \E i \in 1..Len(status.sent) : status.sent[i].n = n

\* C13: only the first request of a reporter is a POST; every later one is
\* a PATCH of the message that the first request created.
C13_OneMessageEdited ==
    \A i \in 1..Len(status.sent) :
        IF i = 1
        THEN status.sent[i].method = "POST" /\ status.sent[i].messageId = 0
        ELSE /\ status.sent[i].method = "PATCH"
             /\ status.sent[i].messageId = responseId(status.sent[1].n, 0)

\* two snapshots were sent as edits after the message was created
C13_Witness ==
    /\ Len(status.sent) >= 3
    /\ status.sent[1].method = "POST"
    /\ status.sent[3].method = "PATCH"
    /\ status.inner \in {"Completed", "Failed"}

Planned == state[PlanLeaf] # "Pending"
Succeeded == state[PlanLeaf] = "Completed"

\* C14: when planning succeeds the emitted parts do not overlap: a part ends
\* no later than every part emitted after it starts.
C14_PartsDoNotOverlap ==
    Succeeded =>
        \A i, j \in 1..Len(context.parts) :
            i < j => context.parts[i].end <= context.parts[j].start

NegativeDuration ==
    \E i \in 1..Len(context.parts) : context.parts[i].end < context.parts[i].start
EndsAfterSource ==
    /\ Len(context.parts) > 0
    /\ context.parts[Len(context.parts)].end > context.duration

\* C15: the Plan task fails when an emitted part has end < start, fails when
\* the last emitted part ends after the source, and succeeds when neither is
\* the case.
C15_PlanFailsIffInvalid ==
    Planned => (state[PlanLeaf] = "Failed" <=> (NegativeDuration \/ EndsAfterSource))

\* C16: a plan in which every consulted part index is disabled has zero
\* parts and the Plan task does not fail; parts = [false] without cut
\* points is such a plan.
C16_AllDisabledIsLegal ==
    /\ (Planned /\ context.parts = <<>>) => Succeeded
    /\ (Planned /\ argv.parts = <<"false">> /\ argv.cuts = <<>>) =>
          (context.parts = <<>> /\ Succeeded)

Suffixes == [i \in 1..Len(context.parts) |-> context.parts[i].filename.suffix]
Interval(i) == <<context.parts[i].start, context.parts[i].end>>

\* C17 as stated: with parts = [_episode, false, _bonus] and three cut
\* points exactly two parts are emitted, named _episode and _bonus.
C17_ThreeCutsTwoParts ==
    (Planned /\ argv.parts = DisabledSecond /\ Len(argv.cuts) = 3) =>
        Suffixes = <<"_episode", "_bonus">>

\* C17 amended: with parts = [_episode, false, _bonus] two cut points give
\* exactly the parts _episode and _bonus; a third cut point adds a part with
\* the default suffix _4 behind them.  The interval between the first and
\* the second cut point, which belongs to the disabled index, is not emitted.
C17_TwoCutsTwoParts ==
    (Planned /\ argv.parts = DisabledSecond /\ Len(argv.cuts) \in {2, 3}) =>
        LET c == [k \in 1..Len(argv.cuts) |-> argv.cuts[k].t]
            first == IF argv.start.set THEN argv.start.t ELSE 0
            last == IF argv.end.set THEN argv.end.t ELSE context.duration
        IN context.parts =
              IF Len(c) = 2
              THEN <<getPartInfo(first, c[1], 0, "_episode"),
                     getPartInfo(c[2], last, 2, "_bonus")>>
              ELSE <<getPartInfo(first, c[1], 0, "_episode"),
                     getPartInfo(c[2], c[3], 2, "_bonus"),
                     [start |-> c[3], end |-> last, index |-> 3,
                      filename |-> [suffix |-> "_", n |-> 4]]>>

\* three cut points were planned into three parts
C17_Witness ==
    /\ Succeeded
    /\ argv.parts = DisabledSecond
    /\ Len(argv.cuts) = 3
    /\ Len(context.parts) = 3

\* C18: with parts = [_episode, false, _bonus], start 60, cut points 120 and
\* 180 and end 240 the plan is [60,120] _episode, then [180,240] _bonus:
\* the disabled index used up the cut point 180 and emitted nothing.
C18_DisabledConsumesCut ==
    (Planned /\ argv.start = ReadmeDisabled.start /\ argv.cuts = ReadmeDisabled.cuts
             /\ argv.end = ReadmeDisabled.end /\ argv.parts = ReadmeDisabled.parts) =>
        context.parts =
            <<[start |-> 60, end |-> 120, index |-> 0,
               filename |-> [suffix |-> "_episode", n |-> 0]],
              [start |-> 180, end |-> 240, index |-> 2,
               filename |-> [suffix |-> "_bonus", n |-> 0]]>>

\* the documented command line was planned on a source of four minutes
C18_Witness ==
    /\ Succeeded
    /\ argv.cuts = ReadmeDisabled.cuts /\ argv.parts = ReadmeDisabled.parts
    /\ Len(context.parts) = 2

\* C19: with start 60, cut points 120, skip, 180 and end 240 the plan is
\* [60,120] with index 0 and [180,240] with index 1, named by the second
\* entry of the preset's parts: the skip used up no part index.
C19_SkipKeepsIndex ==
    (Planned /\ argv.start = Arg(60) /\ argv.cuts = <<Cut(120), Skip, Cut(180)>>
             /\ argv.end = Arg(240) /\ "false" \notin Range(argv.parts)) =>
        /\ Len(context.parts) = 2
        /\ Interval(1) = <<60, 120>> /\ context.parts[1].index = 0
        /\ Interval(2) = <<180, 240>> /\ context.parts[2].index = 1
        /\ context.parts[2].filename =
              getPartInfo(180, 240, 1, partOptions(argv.parts, 1)).filename

\* the documented command line with the preset parts _pre, '', _post
C19_Witness ==
    /\ Succeeded
    /\ argv.cuts = <<Cut(120), Skip, Cut(180)>>
    /\ Len(argv.parts) = 3
    /\ Suffixes = <<"_pre", "">>

\* C20: a failed notification never fails the task that sent it; it is
\* pushed on webhookErrors, and when the run has ended the first five
\* recorded errors have been reported.
C20_NotifierFailuresReported ==
    /\ state[ProcLeaf("Notifying discord of start")] # "Failed"
    /\ state[ResultLeaf] # "Failed"
    /\ run # "running" =>
          reported = SubSeq(webhookErrors, 1, Min(ShownErrors, Len(webhookErrors)))

C22_ResolvesIffExitZero ==
    /\ ffmpeg.settled = "resolved" <=> (ffmpeg.phase = "closed" /\ ffmpeg.code = Exit(0))
    /\ (ffmpeg.phase = "closed" /\ GreaterThanZero(ffmpeg.code)) =>
          /\ ffmpeg.settled = "rejected"
          /\ ffmpeg.failure = [kind |-> "exit", code |-> ffmpeg.code, tail |-> ffmpeg.output]
    /\ ffmpeg.phase = "failed" => ffmpeg.settled = "rejected"
    /\ ffmpeg.spawns <= 1

Abs(n) == IF n < 0 THEN 0 - n ELSE n
Truncated(x) == (x \div SubMilli) * SubMilli

\* C23: parseDuration(formatDuration(x)) is x cut off at the millisecond: it
\* differs from x by less than a millisecond and the millisecond field of
\* the text is the truncated fraction of x.
C23_RoundTrip ==
    (codec.phase = "parsed" /\ codec.x >= 0) =>
        /\ ~codec.thrown
        /\ Abs(codec.parsed - codec.x) < SubMilli
        /\ codec.text[3].v % Second = Truncated(codec.x) % Second
        /\ codec.parsed = Truncated(codec.x)

NonNumeric(text) == \E i \in 1..Len(text) : text[i].kind # "num"

\* C24: parseDuration fails on a text with a non-numeric component, and a cut
\* argument that is neither a timestamp nor the word skip makes the Plan task
\* fail.
C24_BadTextIsFatal ==
    NonNumeric(codec.text) =>
        /\ codec.phase = "parsed" => codec.thrown
        /\ codec.phase = "planned" => codec.plan.state = "Failed"

\* C25: once 'Create local folders' has built context.uploads.parts, the
\* index of every emitted part is a position of that list and the entry at
\* that position was built for that part.
C25_UploadSlotIsOwnEntry ==
    state[ProcLeaf("Create local folders")] = "Completed" =>
        \A p \in 1..Len(context.parts) :
            /\ UploadSlot(p) \in 1..Len(context.uploads)
            /\ context.uploads[UploadSlot(p)].part = p

Queues == DOMAIN heap
EncodeSteps == {t \in DynamicLeaves : t.s \in {"Wait for encoder slot", "Encode cut"}}
EncodesOver == \A t \in EncodeSteps : state[t] \in Terminal

\* C26: an admission is held from the moment wait() admits the task until
\* its encode settles and is released exactly then, whatever the outcome of
\* the encode: ongoing counts the admitted tasks whose encode has not
\* settled, and when every wait and encode task is terminal every queue has
\* ongoing = 0 and no waiter.
C26_AdmissionsReleased ==
    \A g \in Queues :
        /\ heap[g].ongoing = Cardinality(HoldersOf(g))
        /\ \A w \in HoldersOf(g) :
              state[w] = "Completed" /\ StepOf(w, "Encode cut") \in {"Pending", "Running"}
        /\ EncodesOver => heap[g].ongoing = 0 /\ heap[g].queue = <<>>

C26_Witness ==
    /\ EncodesOver
    /\ \E t \in EncodeSteps : t.s = "Encode cut" /\ state[t] = "Failed"
    /\ \E t \in EncodeSteps : t.s = "Encode cut" /\ state[t] = "Completed"
    /\ \A g \in Queues : heap[g].ongoing = 0 /\ heap[g].queue = <<>>

CapacityPositive == \A g \in Queues : heap[g].parallel >= 1
WaitSteps == {t \in DynamicLeaves : t.s = "Wait for encoder slot"}
PartTerminal(t) == SubGroupState(t.g, t.p, t.f) \in Terminal

CutTasks == {t \in DynamicLeaves : t.g = "cut"}
PubTasks == {t \in DynamicLeaves : t.g = "pub"}
PubEncodeStarted == \E t \in PubTasks : t.s = "Encode cut" /\ state[t] # "Pending"

\* C28: 'Generate published files' is started, and an encode of a published
\* format runs, only after 'Generate Cuts' has Completed, that is after the
\* encode of every part has Completed and its upload has Completed or, when
\* uploads are off, was Skipped; when a task of 'Generate Cuts' has Failed
\* 'Generate published files' is not started and has no task.
C28_PublishedAfterCuts ==
    /\ ("pubs" \in started \/ PubTasks # {}) =>
          /\ CutsState = "Completed"
          /\ \A t \in CutTasks :
                /\ state[t] \in Done
                /\ (t.s = "Encode cut" \/ Enabled(t)) => state[t] = "Completed"
    /\ (\E t \in CutTasks : state[t] = "Failed") =>
          "pubs" \notin started /\ PubTasks = {} /\ ~PubEncodeStarted

C28_Witness ==
    /\ PubEncodeStarted
    /\ NParts >= 2
    /\ \A t \in CutTasks : state[t] = "Completed"

Noticed(tag) == tag \in Range(notices)

\* C29: a run never posts both ':tada: Finished processing' and the
\* rollback's ':x: Processing error', and it posts the first only after both
\* generate groups were started and every task of theirs that is enabled has
\* Completed (a disabled one was Skipped).
C29_SuccessOrFailureNotice ==
    /\ ~(Noticed("tada") /\ Noticed("error"))
    /\ Noticed("tada") =>
          /\ rollbacks = 0
          /\ {"cuts", "pubs"} \subseteq started
          /\ \A t \in DynamicLeaves :
                state[t] = IF Enabled(t) THEN "Completed" ELSE "Skipped"

C29_Witness ==
    /\ Noticed("tada")
    /\ buckets
    /\ NParts >= 2
    /\ \E t \in PubTasks : t.s = "Upload" /\ state[t] = "Completed"

\* C30: when planning succeeds every emitted part lies inside the source
\* recording: it does not start after its end and it does not end after the
\* duration of the source.
C30_PartsInsideSource ==
    Succeeded =>
        \A i \in 1..Len(context.parts) :
            /\ context.parts[i].start <= context.parts[i].end
            /\ context.parts[i].end <= context.duration

====
